---------------------------- MODULE Spec2Model ----------------------------
(***************************************************************************)
(* MExplorer: the interactive session controller of src/mexplorer.c        *)
(* (interactive_explorer and the helpers it calls) as a state machine.     *)
(*                                                                         *)
(* Strings are sequences of byte values, so that strcmp is the byte-wise   *)
(* comparison of the C library.  An absolute path string is the sequence   *)
(* of the components that follow each '/' (a component may be empty: the   *)
(* string "//d" that snprintf("%s/%s") builds from "/" and "d" is          *)
(* << <<>>, d >>, while realpath's "/d" is << d >>).                       *)
(*                                                                         *)
(* Heap exhaustion is modelled at list_push's realloc, whose failure       *)
(* branch ends the process; the other allocations are taken to succeed.    *)
(***************************************************************************)
EXTENDS Integers, Sequences, FiniteSets, TLC

(***************************************************************************)
(* Bounds of the model.                                                    *)
(***************************************************************************)
\* number of regular files the directory /d/sub holds before the external deletion
NumFiles == 5
\* number of those files that survive the external deletion
KeepFiles == 2
\* largest terminal height (rows) the window-size query reports
MaxTermHeight == 7

(***************************************************************************)
(* Program constants.                                                      *)
(***************************************************************************)
SORT_NAME == 0
SORT_SIZE == 1
SORT_TIME == 2
\* display_interface: lines reserved for header and footer
ReservedLines == 6

(***************************************************************************)
(* Bytes and names.                                                        *)
(***************************************************************************)
Dot == 46
NameD == <<100>>                               \* "d"
NameE == <<101>>                               \* "e"
NameLock == <<108, 111, 99, 107>>              \* "lock"
NameATxt == <<97, 46, 116, 120, 116>>          \* "a.txt"
NameHidden == <<46, 104, 105, 100, 100, 101, 110>>  \* ".hidden"
NameSub == <<115, 117, 98>>                    \* "sub"
NameDot == <<46>>                              \* "."
NameDotDot == <<46, 46>>                       \* ".."
\* the i-th file of /d/sub: "a", "b", "c", ...
FileName(i) == <<96 + i>>

\* strcmp: the sign of the byte-wise comparison
RECURSIVE Strcmp(_, _)
Strcmp(s, t) ==
    IF s = <<>> /\ t = <<>> THEN 0
    ELSE IF s = <<>> THEN -1
    ELSE IF t = <<>> THEN 1
    ELSE IF Head(s) < Head(t) THEN -1
    ELSE IF Head(s) > Head(t) THEN 1
    ELSE Strcmp(Tail(s), Tail(t))

(***************************************************************************)
(* Paths and the file system the session browses (the environment).        *)
(***************************************************************************)
RootPath == <<>>
\* snprintf(full_path, "%s/%s", path, name)
JoinPath(path, name) ==
    IF path = RootPath THEN << <<>>, name >> ELSE Append(path, name)
\* the directory a path string names: empty components ("//") are skipped
Resolve(path) == SelectSeq(path, LAMBDA c : c # <<>>)
\* realpath of the parent of a canonical directory
ParentDir(dir) == IF dir = <<>> THEN <<>> ELSE SubSeq(dir, 1, Len(dir) - 1)

DirD == <<NameD>>
DirSub == <<NameD, NameSub>>
DirLock == <<NameLock>>
Dirs == {RootPath, DirD, DirSub, DirLock}

\* a child as the file system holds it: kind is the file type of st_mode
Child(n, k, sz, mt) == [name |-> n, kind |-> k, size |-> sz, mtime |-> mt]

\* readdir's entries of a directory, "." and ".." included; ver = 1 after the
\* external deletion in /d/sub
DirChildren(dir, ver) ==
    {Child(NameDot, "dir", 1, 1), Child(NameDotDot, "dir", 1, 1)} \cup
    IF dir = RootPath THEN
        {Child(NameD, "dir", 10, 1), Child(NameE, "reg", 5, 2),
         Child(NameLock, "dir", 20, 3)}
    ELSE IF dir = DirD THEN
        {Child(NameATxt, "reg", 100, 3), Child(NameHidden, "reg", 10, 5),
         Child(NameSub, "dir", 40, 4)}
    ELSE IF dir = DirSub THEN
        {Child(FileName(i), "reg", IF i = 2 THEN 500 ELSE 10, i) :
            i \in 1..(IF ver = 0 THEN NumFiles ELSE KeepFiles)}
    ELSE {}

\* opendir succeeds: /lock exists but cannot be opened
CanOpen(dir) == dir \in Dirs /\ dir # DirLock

\* the child whose lstat can fail (it is removed between readdir and lstat)
Racy(dir, name) == dir = RootPath /\ name = NameE


(***************************************************************************)
(* Entries, the inclusion filter and the comparators.                      *)
(***************************************************************************)
\* file_entry_t as read_dir fills it: fe = {0}, path, name, st and st_valid
MakeEntry(path, c, statOK) ==
    [name     |-> c.name,
     path     |-> JoinPath(path, c.name),
     st_valid |-> statOK,
     kind     |-> IF statOK THEN c.kind ELSE "none",
     size     |-> IF statOK THEN c.size ELSE 0,
     mtime    |-> IF statOK THEN c.mtime ELSE 0]

\* include_entry with the files-only test passing entries without metadata
IncludeEntry_FilesAdmitInvalid(e, f) ==
    IF ~f.show_all /\ e.name # <<>> /\ Head(e.name) = Dot THEN FALSE
    ELSE IF f.dirs_only /\ ~(e.st_valid /\ e.kind = "dir") THEN FALSE
    ELSE IF f.files_only /\ e.st_valid /\ e.kind # "reg" THEN FALSE
    ELSE TRUE

\* include_entry
IncludeEntry(e, f) ==
    IF ~f.show_all /\ e.name # <<>> /\ Head(e.name) = Dot THEN FALSE
    ELSE IF f.dirs_only /\ ~(e.st_valid /\ e.kind = "dir") THEN FALSE
    ELSE IF f.files_only /\ ~(e.st_valid /\ e.kind = "reg") THEN FALSE
    ELSE TRUE

\* cmp_name
CmpName(x, y) == Strcmp(x.name, y.name)

\* cmp_size with the smaller file first
CmpSize_Ascending(x, y) ==
    IF x.st_valid /\ y.st_valid THEN
        IF x.size = y.size THEN Strcmp(x.name, y.name)
        ELSE IF x.size > y.size THEN 1 ELSE -1
    ELSE CmpName(x, y)

\* cmp_size
CmpSize(x, y) ==
    IF x.st_valid /\ y.st_valid THEN
        IF x.size = y.size THEN Strcmp(x.name, y.name)
        ELSE IF y.size > x.size THEN 1 ELSE -1
    ELSE CmpName(x, y)

\* cmp_time
CmpTime(x, y) ==
    IF x.st_valid /\ y.st_valid THEN
        IF x.mtime = y.mtime THEN Strcmp(x.name, y.name)
        ELSE IF y.mtime > x.mtime THEN 1 ELSE -1
    ELSE CmpName(x, y)

\* the comparator load_directory hands to qsort
Cmp(mode, x, y) ==
    IF mode = SORT_NAME THEN CmpName(x, y)
    ELSE IF mode = SORT_SIZE THEN CmpSize(x, y)
    ELSE CmpTime(x, y)

(***************************************************************************)
(* qsort.  The C library sorts when the comparator is a consistent total   *)
(* order on the array; when it is not, the resulting order is not defined  *)
(* and any arrangement of the elements may come out.                       *)
(***************************************************************************)
RECURSIVE Perms(_)
Perms(S) ==
    IF S = {} THEN {<<>>}
    ELSE UNION {{<<x>> \o p : p \in Perms(S \ {x})} : x \in S}

ConsistentOn(S, mode) ==
    /\ \A a, b \in S : Cmp(mode, a, b) = -Cmp(mode, b, a)
    /\ \A a, b, c \in S :
          Cmp(mode, a, b) <= 0 /\ Cmp(mode, b, c) <= 0 => Cmp(mode, a, c) <= 0

StrictOn(S, mode) == \A a, b \in S : a # b => Cmp(mode, a, b) # 0

IsSorted(s, mode) ==
    \A i, j \in 1..Len(s) : i < j => Cmp(mode, s[i], s[j]) <= 0

\* the one sorted arrangement of S under a strict consistent comparator
Ranked(S, mode) ==
    [i \in 1..Cardinality(S) |->
        CHOOSE e \in S : Cardinality({x \in S : Cmp(mode, x, e) < 0}) = i - 1]

QsortResults(S, mode) ==
    IF ~ConsistentOn(S, mode) THEN Perms(S)
    ELSE IF StrictOn(S, mode) THEN {Ranked(S, mode)}
    ELSE {s \in Perms(S) : IsSorted(s, mode)}

(***************************************************************************)
(* read_dir: the entries that reach list_push, as a set (readdir's order   *)
(* is not specified and qsort rearranges the list).                        *)
(***************************************************************************)
ReadDir(path, f, ver, racyOK) ==
    IF ~CanOpen(Resolve(path)) THEN {}
    ELSE LET dir == Resolve(path)
             kept == {c \in DirChildren(dir, ver) :
                         c.name # NameDot /\ c.name # NameDotDot}
             made == {MakeEntry(path, c, Racy(dir, c.name) => racyOK) : c \in kept}
         IN  {e \in made : IncludeEntry(e, f)}


(***************************************************************************)
(* The session: interactive_state_t, the file-scope statics, the terminal  *)
(* and the environment.                                                    *)
(***************************************************************************)
VARIABLES
    pc,               \* where interactive_explorer stands
    current_path,     \* state.current_path
    entries,          \* state.entries, arr[0 .. used-1] as a sequence
    history,          \* state.history, paths[0 .. size-1] as a sequence
    cursor_pos,       \* state.cursor_pos
    scroll_offset,    \* state.scroll_offset
    needs_refresh,    \* state.needs_refresh
    terminal_resized, \* state.terminal_resized
    flags,            \* state.flags
    global_state,     \* global_state # NULL
    handler,          \* the disposition of SIGWINCH
    terminal_setup,   \* setup_terminal's static terminal_setup: raw mode is on
    alt_screen,       \* the terminal shows the alternate screen buffer
    raw_restored,     \* how often raw mode was switched back off
    alt_left,         \* how often the alternate screen was left
    cwd,              \* the working directory of the process
    fsver,            \* 1 once the files of /d/sub were deleted externally
    last_cmd,         \* the command just dispatched, until the loop top
    before_load,      \* cursor and length the reload just done found, and
                      \* whether its lstat calls all succeeded
    hist_log          \* what a test of one component has done: the operations
                      \* on the history stack, or the frame the view drew

vars == <<pc, current_path, entries, history, cursor_pos, scroll_offset,
          needs_refresh, terminal_resized, flags, global_state, handler,
          terminal_setup, alt_screen, raw_restored, alt_left, cwd, fsver,
          last_cmd, before_load, hist_log>>

sessionVars == <<current_path, entries, history, cursor_pos, scroll_offset, flags>>
termVars == <<handler, terminal_setup, alt_screen, raw_restored, alt_left, global_state>>
envVars == <<cwd, fsver>>

\* the settings main() hands over: -d with -f is refused before the session
FlagSets ==
    {f \in [show_all : BOOLEAN, long_format : BOOLEAN, dirs_only : BOOLEAN,
            files_only : BOOLEAN, human_readable : BOOLEAN,
            sort_mode : {SORT_NAME, SORT_SIZE, SORT_TIME}] :
        ~(f.dirs_only /\ f.files_only)}

NoLoad == [cursor |-> -1, used |-> -1, stat_ok |-> TRUE]

\* the state before interactive_explorer runs; the start path is chosen in Start
Init ==
    /\ pc = "start"
    /\ current_path = RootPath
    /\ entries = <<>>
    /\ history = <<>>
    /\ cursor_pos = 0
    /\ scroll_offset = 0
    /\ needs_refresh = FALSE
    /\ terminal_resized = FALSE
    /\ flags \in FlagSets
    /\ global_state = FALSE
    /\ handler = "dfl"
    /\ terminal_setup = FALSE
    /\ alt_screen = FALSE
    /\ raw_restored = 0
    /\ alt_left = 0
    /\ cwd \in {DirD, DirSub}
    /\ fsver = 0
    /\ last_cmd = "none"
    /\ before_load = NoLoad
    /\ hist_log = <<>>


(***************************************************************************)
(* Navigation history.                                                     *)
(***************************************************************************)
\* history_push without the comparison against the top
HistoryPush_NoDedup(h, path) == Append(h, path)

\* history_push: a path equal to the top is not pushed again
HistoryPush(h, path) ==
    IF Len(h) > 0 /\ h[Len(h)] = path THEN h ELSE Append(h, path)

\* history_pop: the top and the rest; null is the NULL an empty stack returns
HistoryPop(h) ==
    IF Len(h) = 0 THEN [null |-> TRUE, path |-> <<>>, rest |-> h]
    ELSE [null |-> FALSE, path |-> h[Len(h)], rest |-> SubSeq(h, 1, Len(h) - 1)]

\* history_is_empty
HistoryIsEmpty(h) == Len(h) = 0

(***************************************************************************)
(* Input.                                                                  *)
(***************************************************************************)
Ch == [q |-> 113, j |-> 106, k |-> 107, h |-> 104, l |-> 108, a |-> 97,
       b |-> 98, s |-> 115, H |-> 72, d |-> 100, f |-> 102, r |-> 114,
       x |-> 120, nl |-> 10, help |-> 63, esc |-> 27, lbr |-> 91,
       A |-> 65, B |-> 66, C |-> 67, D |-> 68, Z |-> 90]

\* what one read(STDIN_FILENO, buf, 8) can return: <<>> is a read that
\* returns no byte (end of input, or a read a signal interrupted)
Inputs ==
    {<<>>, <<Ch.q>>, <<Ch.j>>, <<Ch.k>>, <<Ch.nl>>, <<Ch.b>>, <<Ch.a>>,
     <<Ch.l>>, <<Ch.s>>, <<Ch.H>>, <<Ch.d>>, <<Ch.f>>, <<Ch.r>>, <<Ch.help>>,
     <<Ch.x>>, <<Ch.h>>, <<Ch.esc>>,
     <<Ch.esc, Ch.lbr, Ch.A>>, <<Ch.esc, Ch.lbr, Ch.B>>,
     <<Ch.esc, Ch.lbr, Ch.C>>, <<Ch.esc, Ch.lbr, Ch.D>>,
     <<Ch.esc, Ch.lbr, Ch.Z>>, <<Ch.j, Ch.q>>}

\* what the two one-byte reads after a bare ESC can return: a shorter
\* sequence is a read that did not return one byte
EscTails ==
    {<<>>, <<Ch.lbr>>, <<Ch.lbr, Ch.A>>, <<Ch.lbr, Ch.B>>, <<Ch.lbr, Ch.C>>,
     <<Ch.x, Ch.B>>}

\* read_single_char_optimized
ReadSingleChar(buf) ==
    IF Len(buf) <= 0 THEN 0
    ELSE IF buf[1] = Ch.esc /\ Len(buf) >= 3 /\ buf[2] = Ch.lbr THEN
        IF buf[3] = Ch.A THEN Ch.k
        ELSE IF buf[3] = Ch.B THEN Ch.j
        ELSE IF buf[3] = Ch.C THEN Ch.l
        ELSE IF buf[3] = Ch.D THEN Ch.h
        ELSE buf[1]
    ELSE buf[1]

\* the read returned a whole escape sequence, ESC [ and a final byte
IsEscapeSeq(buf) == Len(buf) >= 3 /\ buf[1] = Ch.esc /\ buf[2] = Ch.lbr

\* the key bytes the switch of interactive_explorer has a case for
CommandKeys ==
    {Ch.q, Ch.j, Ch.esc, Ch.k, Ch.nl, Ch.b, Ch.a, Ch.l, Ch.s, Ch.H, Ch.d,
     Ch.f, Ch.r, Ch.help}

(***************************************************************************)
(* Terminal.                                                               *)
(***************************************************************************)
\* get_terminal_height: any row count the terminal can report
TermHeights == 0..MaxTermHeight

\* display_interface: the line budget of the file list
AvailableLines(h) == IF h - ReservedLines < 1 THEN 1 ELSE h - ReservedLines

\* the line budgets display_interface can work with
LineBudgets == {AvailableLines(h) : h \in TermHeights}

\* the scroll adjustment without the + 1 of the second branch
AdjustScroll_NoPlusOne(cur, off, avail) ==
    IF cur < off THEN cur
    ELSE IF cur >= off + avail THEN cur - avail
    ELSE off

\* display_interface: the scroll offset that keeps the cursor in view
AdjustScroll(cur, off, avail) ==
    IF cur < off THEN cur
    ELSE IF cur >= off + avail THEN cur - avail + 1
    ELSE off


(***************************************************************************)
(* Start-up, reload, rendering.                                            *)
(***************************************************************************)
Alive == pc \notin {"start", "aborted", "exited", "done"}

\* the directories realpath(start_path) can resolve to
StartDirs == {RootPath, DirD, DirSub}

\* what signal(SIGWINCH, handle_terminal_resize) leaves installed: a handler
\* that stays (BSD semantics) or one that the first delivery resets to the
\* default action (System V semantics); the build decides which
Dispositions == {"installed", "oneshot"}

HandlerLive == handler \in Dispositions

\* interactive_explorer with the handler, raw mode and the alternate screen
\* set up before the start path is resolved
Start_SetupBeforeResolve ==
    /\ pc = "start"
    /\ \/ /\ pc' = "aborted"
          /\ handler' \in Dispositions
          /\ terminal_setup' = TRUE
          /\ alt_screen' = TRUE
          /\ UNCHANGED <<sessionVars, needs_refresh, terminal_resized,
                         raw_restored, alt_left, global_state>>
       \/ \E dir \in StartDirs :
            /\ current_path' = dir
            /\ needs_refresh' = TRUE
            /\ terminal_resized' = FALSE
            /\ global_state' = TRUE
            /\ entries' = <<>>
            /\ history' = <<>>
            /\ handler' \in Dispositions
            /\ terminal_setup' = TRUE
            /\ alt_screen' = TRUE
            /\ pc' = "setup"
            /\ UNCHANGED <<cursor_pos, scroll_offset, flags, raw_restored, alt_left>>
    /\ UNCHANGED <<envVars, hist_log, last_cmd, before_load>>

\* interactive_explorer up to the registration of the state: realpath fails
\* and the function returns, or the state is initialised and published in
\* global_state
Start ==
    /\ pc = "start"
    /\ \/ /\ pc' = "aborted"
          /\ UNCHANGED <<sessionVars, termVars, needs_refresh, terminal_resized>>
       \/ \E dir \in StartDirs :
            /\ current_path' = dir
            /\ needs_refresh' = TRUE
            /\ terminal_resized' = FALSE
            /\ global_state' = TRUE
            /\ entries' = <<>>
            /\ history' = <<>>
            /\ pc' = "setup"
            /\ UNCHANGED <<cursor_pos, scroll_offset, flags, handler,
                           terminal_setup, alt_screen, raw_restored, alt_left>>
    /\ UNCHANGED <<envVars, hist_log, last_cmd, before_load>>

\* interactive_explorer from the installation of the resize handler to the
\* alternate screen
Setup ==
    /\ pc = "setup"
    /\ handler' \in Dispositions
    /\ terminal_setup' = TRUE
    /\ alt_screen' = TRUE
    /\ pc' = "init_load"
    /\ UNCHANGED <<sessionVars, needs_refresh, terminal_resized, global_state,
                   raw_restored, alt_left, envVars, hist_log, last_cmd,
                   before_load>>

\* list_push: the first push after list_free grows the array from cap 0, and a
\* failed realloc ends the process through exit(EXIT_FAILURE)
ListPushExits(out, allocOK) == out # {} /\ ~allocOK

\* the memory of a process that has ended, or of a function that has returned,
\* is gone: the session fields take their initial values again
SessionGone ==
    /\ current_path' = RootPath
    /\ entries' = <<>>
    /\ history' = <<>>
    /\ cursor_pos' = 0
    /\ scroll_offset' = 0
    /\ needs_refresh' = FALSE
    /\ terminal_resized' = FALSE
    /\ before_load' = NoLoad

\* load_directory clamping the cursor to the new list instead of resetting it
LoadDirectory_Clamp(next) ==
    \E racyOK \in BOOLEAN, allocOK \in BOOLEAN :
        LET out == ReadDir(current_path, flags, fsver, racyOK) IN
        IF ListPushExits(out, allocOK)
        THEN /\ pc' = "exited"
             /\ SessionGone
        ELSE /\ \E sorted \in QsortResults(out, flags.sort_mode) :
                   entries' = sorted
             /\ cursor_pos' = IF out = {} THEN 0
                              ELSE IF cursor_pos > Cardinality(out) - 1
                                   THEN Cardinality(out) - 1
                                   ELSE cursor_pos
             /\ scroll_offset' = 0
             /\ before_load' = [cursor |-> cursor_pos, used |-> Len(entries),
                                 stat_ok |-> racyOK \/ Resolve(current_path) # RootPath]
             /\ pc' = next
             /\ UNCHANGED <<current_path, history, needs_refresh, terminal_resized>>

\* load_directory: list_free, read_dir, qsort, cursor and scroll reset
LoadDirectory(next) ==
    \E racyOK \in BOOLEAN, allocOK \in BOOLEAN :
        LET out == ReadDir(current_path, flags, fsver, racyOK) IN
        IF ListPushExits(out, allocOK)
        THEN /\ pc' = "exited"
             /\ SessionGone
        ELSE /\ \E sorted \in QsortResults(out, flags.sort_mode) :
                   entries' = sorted
             /\ cursor_pos' = 0
             /\ scroll_offset' = 0
             /\ before_load' = [cursor |-> cursor_pos, used |-> Len(entries),
                                 stat_ok |-> racyOK \/ Resolve(current_path) # RootPath]
             /\ pc' = next
             /\ UNCHANGED <<current_path, history, needs_refresh, terminal_resized>>

\* the load before the loop
InitLoad ==
    /\ pc = "init_load"
    /\ LoadDirectory("top")
    /\ UNCHANGED <<flags, termVars, envVars, hist_log, last_cmd>>

\* top of the loop: a signalled resize asks for a refresh
LoopTop ==
    /\ pc = "top"
    /\ IF terminal_resized
       THEN terminal_resized' = FALSE /\ needs_refresh' = TRUE
       ELSE UNCHANGED <<terminal_resized, needs_refresh>>
    /\ pc' = "check_refresh"
    /\ last_cmd' = "none"
    /\ before_load' = NoLoad
    /\ UNCHANGED <<sessionVars, termVars, envVars, hist_log>>

\* if (state.needs_refresh) load_directory(&state);
CheckRefresh ==
    /\ pc = "check_refresh"
    /\ IF needs_refresh
       THEN LoadDirectory("clear_refresh")
       ELSE /\ pc' = "render"
            /\ UNCHANGED <<current_path, entries, history, cursor_pos, scroll_offset,
                           needs_refresh, terminal_resized, before_load>>
    /\ UNCHANGED <<flags, termVars, envVars, hist_log, last_cmd>>

\* state.needs_refresh = 0;
ClearRefresh ==
    /\ pc = "clear_refresh"
    /\ needs_refresh' = FALSE
    /\ pc' = "render"
    /\ before_load' = NoLoad
    /\ UNCHANGED <<sessionVars, terminal_resized, termVars, envVars, hist_log, last_cmd>>

\* display_interface, then the loop blocks in read_single_char_optimized
Render ==
    /\ pc = "render"
    /\ \E avail \in LineBudgets :
          scroll_offset' = AdjustScroll(cursor_pos, scroll_offset, avail)
    /\ pc' = "await"
    /\ UNCHANGED <<current_path, entries, history, cursor_pos, flags, needs_refresh,
                   terminal_resized, termVars, envVars, hist_log, last_cmd, before_load>>


(***************************************************************************)
(* Key dispatch: the switch of interactive_explorer, one action per case.  *)
(***************************************************************************)
\* the blocked read returns a buffer that decodes to key code c
Pressed(c) ==
    /\ pc = "await"
    /\ \E buf \in Inputs : ReadSingleChar(buf) = c

\* case 'q'
KeyQuit ==
    /\ Pressed(Ch.q)
    /\ pc' = "cleanup"
    /\ last_cmd' = "quit"
    /\ UNCHANGED <<sessionVars, needs_refresh, terminal_resized, termVars, envVars, hist_log,
                   before_load>>

\* the movement without the test against the last index
MoveCursor_NoClamp(k, cur, used) ==
    IF k = Ch.j \/ k = Ch.esc THEN cur + 1
    ELSE IF k = Ch.k THEN (IF cur > 0 THEN cur - 1 ELSE cur)
    ELSE cur

\* the movement shared by 'j', ESC and 'k': one step, kept inside the list
MoveCursor(k, cur, used) ==
    IF k = Ch.j \/ k = Ch.esc THEN (IF cur < used - 1 THEN cur + 1 ELSE cur)
    ELSE IF k = Ch.k THEN (IF cur > 0 THEN cur - 1 ELSE cur)
    ELSE cur

\* case 'j'
KeyDown ==
    /\ Pressed(Ch.j)
    /\ cursor_pos' = MoveCursor(Ch.j, cursor_pos, Len(entries))
    /\ pc' = "top"
    /\ last_cmd' = IF cursor_pos' = cursor_pos THEN "down_stay" ELSE "down"
    /\ UNCHANGED <<current_path, entries, history, scroll_offset, flags,
                   needs_refresh, terminal_resized, termVars, envVars, hist_log, before_load>>

\* case '\033': the loop goes on to read two more bytes, one at a time
KeyEsc ==
    /\ Pressed(Ch.esc)
    /\ pc' = "esc"
    /\ last_cmd' = "esc"
    /\ UNCHANGED <<sessionVars, needs_refresh, terminal_resized, termVars, envVars, hist_log,
                   before_load>>

\* the key the two bytes after ESC stand for; ESC itself when they are no arrow
EscDecode(tail) ==
    IF Len(tail) = 2 /\ tail[1] = Ch.lbr
    THEN IF tail[2] = Ch.B THEN Ch.j
         ELSE IF tail[2] = Ch.A THEN Ch.k
         ELSE Ch.esc
    ELSE Ch.esc

\* the two reads after ESC, then the fall through into the movement
EscSeq ==
    /\ pc = "esc"
    /\ \E tail \in EscTails :
          /\ cursor_pos' = MoveCursor(EscDecode(tail), cursor_pos, Len(entries))
          /\ last_cmd' = IF EscDecode(tail) = Ch.k
                          THEN (IF cursor_pos' = cursor_pos THEN "up_stay" ELSE "up")
                          ELSE (IF cursor_pos' = cursor_pos THEN "down_stay" ELSE "down")
    /\ pc' = "top"
    /\ UNCHANGED <<current_path, entries, history, scroll_offset, flags,
                   needs_refresh, terminal_resized, termVars, envVars, hist_log, before_load>>

\* case 'k'
KeyUp ==
    /\ Pressed(Ch.k)
    /\ cursor_pos' = MoveCursor(Ch.k, cursor_pos, Len(entries))
    /\ pc' = "top"
    /\ last_cmd' = IF cursor_pos' = cursor_pos THEN "up_stay" ELSE "up"
    /\ UNCHANGED <<current_path, entries, history, scroll_offset, flags,
                   needs_refresh, terminal_resized, termVars, envVars, hist_log, before_load>>

\* case '\n' without the test for an empty list: the info view is opened
KeyEnter_NoEmptyTest ==
    /\ Pressed(Ch.nl)
    /\ IF Len(entries) > 0 /\ entries[cursor_pos + 1].st_valid
          /\ entries[cursor_pos + 1].kind = "dir"
       THEN /\ history' = HistoryPush(history, current_path)
            /\ current_path' = entries[cursor_pos + 1].path
            /\ needs_refresh' = TRUE
            /\ pc' = "top"
            /\ last_cmd' = "enter_dir"
       ELSE /\ pc' = "ack_info"
            /\ last_cmd' = IF Len(entries) > 0 THEN "enter_info" ELSE "enter_empty"
            /\ UNCHANGED <<history, current_path, needs_refresh>>
    /\ UNCHANGED <<entries, cursor_pos, scroll_offset, flags, terminal_resized,
                   termVars, envVars, hist_log, before_load>>

\* case '\n' pushing the path of the entry instead of the path being left
KeyEnter_PushTarget ==
    /\ Pressed(Ch.nl)
    /\ IF Len(entries) > 0
       THEN LET entry == entries[cursor_pos + 1] IN
            IF entry.st_valid /\ entry.kind = "dir"
            THEN /\ history' = HistoryPush(history, entry.path)
                 /\ current_path' = entry.path
                 /\ needs_refresh' = TRUE
                 /\ pc' = "top"
                 /\ last_cmd' = "enter_dir"
            ELSE /\ pc' = "ack_info"
                 /\ last_cmd' = "enter_info"
                 /\ UNCHANGED <<history, current_path, needs_refresh>>
       ELSE /\ pc' = "top"
            /\ last_cmd' = "enter_empty"
            /\ UNCHANGED <<history, current_path, needs_refresh>>
    /\ UNCHANGED <<entries, cursor_pos, scroll_offset, flags, terminal_resized,
                   termVars, envVars, hist_log, before_load>>

\* case '\n' without the history_push
KeyEnter_NoPush ==
    /\ Pressed(Ch.nl)
    /\ IF Len(entries) > 0
       THEN LET entry == entries[cursor_pos + 1] IN
            IF entry.st_valid /\ entry.kind = "dir"
            THEN /\ current_path' = entry.path
                 /\ needs_refresh' = TRUE
                 /\ pc' = "top"
                 /\ last_cmd' = "enter_dir"
                 /\ UNCHANGED history
            ELSE /\ pc' = "ack_info"
                 /\ last_cmd' = "enter_info"
                 /\ UNCHANGED <<history, current_path, needs_refresh>>
       ELSE /\ pc' = "top"
            /\ last_cmd' = "enter_empty"
            /\ UNCHANGED <<history, current_path, needs_refresh>>
    /\ UNCHANGED <<entries, cursor_pos, scroll_offset, flags, terminal_resized,
                   termVars, envVars, hist_log, before_load>>

\* case '\n'
KeyEnter ==
    /\ Pressed(Ch.nl)
    /\ IF Len(entries) > 0
       THEN LET entry == entries[cursor_pos + 1] IN
            IF entry.st_valid /\ entry.kind = "dir"
            THEN /\ history' = HistoryPush(history, current_path)
                 /\ current_path' = entry.path
                 /\ needs_refresh' = TRUE
                 /\ pc' = "top"
                 /\ last_cmd' = "enter_dir"
            ELSE /\ pc' = "ack_info"
                 /\ last_cmd' = "enter_info"
                 /\ UNCHANGED <<history, current_path, needs_refresh>>
       ELSE /\ pc' = "top"
            /\ last_cmd' = "enter_empty"
            /\ UNCHANGED <<history, current_path, needs_refresh>>
    /\ UNCHANGED <<entries, cursor_pos, scroll_offset, flags, terminal_resized,
                   termVars, envVars, hist_log, before_load>>

\* the info view handing the key it waited for to the dispatch: q quits
AckInfo_QuitOnQ ==
    /\ pc = "ack_info"
    /\ \E buf \in Inputs :
          IF ReadSingleChar(buf) = Ch.q
          THEN pc' = "cleanup" /\ UNCHANGED needs_refresh
          ELSE pc' = "top" /\ needs_refresh' = TRUE
    /\ UNCHANGED <<sessionVars, terminal_resized, termVars, envVars, hist_log, last_cmd,
                   before_load>>

\* the info view waits for one key, then asks for a refresh
AckInfo ==
    /\ pc = "ack_info"
    /\ \E buf \in Inputs : TRUE
    /\ needs_refresh' = TRUE
    /\ pc' = "top"
    /\ UNCHANGED <<sessionVars, terminal_resized, termVars, envVars, hist_log, last_cmd,
                   before_load>>

\* case 'b'
KeyBack ==
    /\ Pressed(Ch.b)
    /\ IF ~HistoryIsEmpty(history)
       THEN LET popped == HistoryPop(history) IN
            /\ history' = popped.rest
            /\ IF ~popped.null /\ popped.path # current_path
               THEN /\ current_path' = popped.path
                    /\ needs_refresh' = TRUE
                    /\ last_cmd' = "back_pop"
               ELSE /\ UNCHANGED <<current_path, needs_refresh>>
                    /\ last_cmd' = "back_pop_same"
       ELSE \E resolved \in BOOLEAN :
            LET parent == ParentDir(cwd) IN
            /\ UNCHANGED history
            /\ IF resolved /\ parent # current_path
               THEN /\ current_path' = parent
                    /\ needs_refresh' = TRUE
                    /\ last_cmd' = "back_parent"
               ELSE /\ UNCHANGED <<current_path, needs_refresh>>
                    /\ last_cmd' = IF resolved THEN "back_stay" ELSE "back_unresolved"
    /\ pc' = "top"
    /\ UNCHANGED <<entries, cursor_pos, scroll_offset, flags, terminal_resized,
                   termVars, envVars, hist_log, before_load>>

\* case 'a'
KeyHidden ==
    /\ Pressed(Ch.a)
    /\ flags' = [flags EXCEPT !.show_all = ~flags.show_all]
    /\ needs_refresh' = TRUE
    /\ pc' = "top"
    /\ last_cmd' = "hidden"
    /\ UNCHANGED <<current_path, entries, history, cursor_pos, scroll_offset,
                   terminal_resized, termVars, envVars, hist_log, before_load>>

\* case 'l'
KeyLong ==
    /\ pc = "await"
    /\ \E buf \in Inputs :
          /\ ReadSingleChar(buf) = Ch.l
          /\ last_cmd' = IF IsEscapeSeq(buf) THEN "long_arrow" ELSE "long"
    /\ flags' = [flags EXCEPT !.long_format = ~flags.long_format]
    /\ pc' = "top"
    /\ UNCHANGED <<current_path, entries, history, cursor_pos, scroll_offset,
                   needs_refresh, terminal_resized, termVars, envVars, hist_log, before_load>>

\* case 's' stepping through the modes the other way round
KeySort_Backwards ==
    /\ Pressed(Ch.s)
    /\ flags' = [flags EXCEPT !.sort_mode = (flags.sort_mode + 2) % 3]
    /\ needs_refresh' = TRUE
    /\ pc' = "top"
    /\ last_cmd' = "sort"
    /\ UNCHANGED <<current_path, entries, history, cursor_pos, scroll_offset,
                   terminal_resized, termVars, envVars, hist_log, before_load>>

\* case 's' without the line that sets needs_refresh
KeySort_NoRefresh ==
    /\ Pressed(Ch.s)
    /\ flags' = [flags EXCEPT !.sort_mode = (flags.sort_mode + 1) % 3]
    /\ pc' = "top"
    /\ last_cmd' = "sort"
    /\ UNCHANGED <<current_path, entries, history, cursor_pos, scroll_offset,
                   needs_refresh, terminal_resized, termVars, envVars, hist_log,
                   before_load>>

\* case 's'
KeySort ==
    /\ Pressed(Ch.s)
    /\ flags' = [flags EXCEPT !.sort_mode = (flags.sort_mode + 1) % 3]
    /\ needs_refresh' = TRUE
    /\ pc' = "top"
    /\ last_cmd' = "sort"
    /\ UNCHANGED <<current_path, entries, history, cursor_pos, scroll_offset,
                   terminal_resized, termVars, envVars, hist_log, before_load>>

\* case 'H' with a request for a refresh
KeyHuman_Refresh ==
    /\ Pressed(Ch.H)
    /\ flags' = [flags EXCEPT !.human_readable = ~flags.human_readable]
    /\ needs_refresh' = TRUE
    /\ pc' = "top"
    /\ last_cmd' = "human"
    /\ UNCHANGED <<current_path, entries, history, cursor_pos, scroll_offset,
                   terminal_resized, termVars, envVars, hist_log, before_load>>

\* case 'H'
KeyHuman ==
    /\ Pressed(Ch.H)
    /\ flags' = [flags EXCEPT !.human_readable = ~flags.human_readable]
    /\ pc' = "top"
    /\ last_cmd' = "human"
    /\ UNCHANGED <<current_path, entries, history, cursor_pos, scroll_offset,
                   needs_refresh, terminal_resized, termVars, envVars, hist_log, before_load>>

\* case 'd' without the line that clears files_only
KeyDirs_NoClear ==
    /\ Pressed(Ch.d)
    /\ flags' = [flags EXCEPT !.dirs_only = ~flags.dirs_only]
    /\ needs_refresh' = TRUE
    /\ pc' = "top"
    /\ last_cmd' = "dirs"
    /\ UNCHANGED <<current_path, entries, history, cursor_pos, scroll_offset,
                   terminal_resized, termVars, envVars, hist_log, before_load>>

\* case 'd'
KeyDirs ==
    /\ Pressed(Ch.d)
    /\ flags' = [flags EXCEPT !.dirs_only = ~flags.dirs_only,
                              !.files_only = IF ~flags.dirs_only THEN FALSE
                                             ELSE flags.files_only]
    /\ needs_refresh' = TRUE
    /\ pc' = "top"
    /\ last_cmd' = IF ~flags.dirs_only /\ flags.files_only THEN "dirs_swap" ELSE "dirs"
    /\ UNCHANGED <<current_path, entries, history, cursor_pos, scroll_offset,
                   terminal_resized, termVars, envVars, hist_log, before_load>>

\* case 'f'
KeyFiles ==
    /\ Pressed(Ch.f)
    /\ flags' = [flags EXCEPT !.files_only = ~flags.files_only,
                              !.dirs_only = IF ~flags.files_only THEN FALSE
                                            ELSE flags.dirs_only]
    /\ needs_refresh' = TRUE
    /\ pc' = "top"
    /\ last_cmd' = IF ~flags.files_only /\ flags.dirs_only THEN "files_swap" ELSE "files"
    /\ UNCHANGED <<current_path, entries, history, cursor_pos, scroll_offset,
                   terminal_resized, termVars, envVars, hist_log, before_load>>

\* case 'r'
KeyRefresh ==
    /\ Pressed(Ch.r)
    /\ needs_refresh' = TRUE
    /\ pc' = "top"
    /\ last_cmd' = "refresh"
    /\ UNCHANGED <<sessionVars, terminal_resized, termVars, envVars, hist_log, before_load>>

\* case '?': the help screen, then the loop blocks for one key
KeyHelp ==
    /\ Pressed(Ch.help)
    /\ pc' = "ack_help"
    /\ last_cmd' = "help"
    /\ UNCHANGED <<sessionVars, needs_refresh, terminal_resized, termVars, envVars, hist_log,
                   before_load>>

\* the help screen waits for one key, then asks for a refresh
AckHelp ==
    /\ pc = "ack_help"
    /\ \E buf \in Inputs : TRUE
    /\ needs_refresh' = TRUE
    /\ pc' = "top"
    /\ UNCHANGED <<sessionVars, terminal_resized, termVars, envVars, hist_log, last_cmd,
                   before_load>>

\* default: any other key, and a read that returned nothing
KeyOther ==
    /\ pc = "await"
    /\ \E buf \in Inputs :
          /\ ReadSingleChar(buf) \notin CommandKeys
          /\ last_cmd' = IF IsEscapeSeq(buf) THEN "other_arrow" ELSE "other"
    /\ pc' = "top"
    /\ UNCHANGED <<sessionVars, needs_refresh, terminal_resized, termVars, envVars, hist_log,
                   before_load>>

(***************************************************************************)
(* Cleanup, the resize signal and the environment.                         *)
(***************************************************************************)
\* restore_terminal_and_exit, its first statements: the alternate screen is
\* left
Cleanup ==
    /\ pc = "cleanup"
    /\ alt_screen' = FALSE
    /\ alt_left' = alt_left + 1
    /\ pc' = "uninstall"
    /\ UNCHANGED <<sessionVars, needs_refresh, terminal_resized, handler,
                   terminal_setup, raw_restored, global_state, envVars,
                   hist_log, last_cmd, before_load>>

\* restore_terminal_and_exit restoring the terminal modes without giving
\* SIGWINCH back its default action
Uninstall_KeepHandler ==
    /\ pc = "uninstall"
    /\ IF terminal_setup
       THEN terminal_setup' = FALSE /\ raw_restored' = raw_restored + 1
       ELSE UNCHANGED <<terminal_setup, raw_restored>>
    /\ pc' = "release"
    /\ UNCHANGED <<sessionVars, needs_refresh, terminal_resized, handler,
                   alt_screen, alt_left, global_state, envVars, hist_log,
                   last_cmd, before_load>>

\* restore_terminal_and_exit, next: SIGWINCH goes back to its default action
\* and setup_terminal(0), inlined, restores the terminal modes
Uninstall ==
    /\ pc = "uninstall"
    /\ handler' = "dfl"
    /\ IF terminal_setup
       THEN terminal_setup' = FALSE /\ raw_restored' = raw_restored + 1
       ELSE UNCHANGED <<terminal_setup, raw_restored>>
    /\ pc' = "release"
    /\ UNCHANGED <<sessionVars, needs_refresh, terminal_resized, alt_screen,
                   alt_left, global_state, envVars, hist_log, last_cmd,
                   before_load>>

\* the end of restore_terminal_and_exit and the return of
\* interactive_explorer: the memory is freed and global_state is cleared
Release ==
    /\ pc = "release"
    /\ global_state' = FALSE
    /\ pc' = "done"
    /\ SessionGone
    /\ UNCHANGED <<flags, handler, terminal_setup, alt_screen, raw_restored,
                   alt_left, envVars, hist_log, last_cmd>>

\* the disposition of SIGWINCH after a delivery that ran the handler
AfterDelivery(h) == IF h = "oneshot" THEN "dfl" ELSE h

\* handle_terminal_resize without the line that sets needs_refresh
Resize_FlagOnly ==
    /\ Alive
    /\ HandlerLive
    /\ handler' = AfterDelivery(handler)
    /\ IF global_state
       THEN terminal_resized' = TRUE
       ELSE UNCHANGED terminal_resized
    /\ UNCHANGED <<pc, sessionVars, needs_refresh, terminal_setup, alt_screen,
                   raw_restored, alt_left, global_state, envVars, hist_log,
                   last_cmd, before_load>>

\* handle_terminal_resize, run by a delivered SIGWINCH
Resize ==
    /\ Alive
    /\ HandlerLive
    /\ handler' = AfterDelivery(handler)
    /\ IF global_state
       THEN terminal_resized' = TRUE /\ needs_refresh' = TRUE
       ELSE UNCHANGED <<terminal_resized, needs_refresh>>
    /\ UNCHANGED <<pc, sessionVars, terminal_setup, alt_screen, raw_restored,
                   alt_left, global_state, envVars, hist_log, last_cmd,
                   before_load>>

\* files of /d/sub are deleted, or created again, behind the session's back
FsChange ==
    /\ Alive
    /\ fsver' = 1 - fsver
    /\ UNCHANGED <<pc, sessionVars, needs_refresh, terminal_resized, termVars,
                   cwd, last_cmd, before_load, hist_log>>

Next ==
    \/ Start \/ Setup \/ InitLoad \/ LoopTop \/ CheckRefresh \/ ClearRefresh \/ Render
    \/ KeyQuit \/ KeyDown \/ KeyEsc \/ EscSeq \/ KeyUp \/ KeyEnter \/ AckInfo
    \/ KeyBack \/ KeyHidden \/ KeyLong \/ KeySort \/ KeyHuman \/ KeyDirs
    \/ KeyFiles \/ KeyRefresh \/ KeyHelp \/ AckHelp \/ KeyOther
    \/ Cleanup \/ Uninstall \/ Release \/ Resize \/ FsChange

Spec == Init /\ [][Next]_vars


(***************************************************************************)
(* The history stack on its own: history_push and history_pop applied to   *)
(* arbitrary paths, with every operation and what it returned logged.      *)
(***************************************************************************)
\* number of operations a test of the stack performs
MaxHistOps == 4

HistPaths == {RootPath, DirD, DirSub}

PushOp(p) == [op |-> "push", path |-> p, null |-> FALSE]

HistInit ==
    /\ pc = "hist_test"
    /\ current_path = RootPath
    /\ entries = <<>>
    /\ history = <<>>
    /\ cursor_pos = 0
    /\ scroll_offset = 0
    /\ needs_refresh = FALSE
    /\ terminal_resized = FALSE
    /\ flags = [show_all |-> FALSE, long_format |-> FALSE, dirs_only |-> FALSE,
                files_only |-> FALSE, human_readable |-> FALSE,
                sort_mode |-> SORT_NAME]
    /\ global_state = FALSE
    /\ handler = "dfl"
    /\ terminal_setup = FALSE
    /\ alt_screen = FALSE
    /\ raw_restored = 0
    /\ alt_left = 0
    /\ cwd = DirD
    /\ fsver = 0
    /\ last_cmd = "none"
    /\ before_load = NoLoad
    /\ hist_log = <<>>

\* history_push(&h, p)
HistPush ==
    /\ Len(hist_log) < MaxHistOps
    /\ \E p \in HistPaths :
          /\ history' = HistoryPush(history, p)
          /\ hist_log' = Append(hist_log, PushOp(p))
    /\ UNCHANGED <<pc, current_path, entries, cursor_pos, scroll_offset, flags,
                   needs_refresh, terminal_resized, termVars, envVars, last_cmd,
                   before_load>>

\* history_pop(&h)
HistPop ==
    /\ Len(hist_log) < MaxHistOps
    /\ LET popped == HistoryPop(history) IN
          /\ history' = popped.rest
          /\ hist_log' = Append(hist_log, [op |-> "pop", path |-> popped.path,
                                           null |-> popped.null])
    /\ UNCHANGED <<pc, current_path, entries, cursor_pos, scroll_offset, flags,
                   needs_refresh, terminal_resized, termVars, envVars, last_cmd,
                   before_load>>

HistNext == HistPush \/ HistPop

HistorySpec == HistInit /\ [][HistNext]_vars

(***************************************************************************)
(* The filter and the sort on their own: include_entry and qsort applied   *)
(* to arbitrary lists of entries under arbitrary settings.                 *)
(***************************************************************************)
\* longest list the filter and the sort are applied to
MaxListLen == 3

\* entries as read_dir makes them: three regular files of /d/sub, the hidden
\* file of /d, and the children of / with the lstat of "e" failed
EntryPool ==
    {MakeEntry(DirSub, c, TRUE) :
        c \in {x \in DirChildren(DirSub, 0) :
                  x.name \in {FileName(1), FileName(2), FileName(3)}}}
    \cup {MakeEntry(DirD, c, TRUE) :
             c \in {x \in DirChildren(DirD, 0) : x.name = NameHidden}}
    \cup {MakeEntry(RootPath, c, c.name # NameE) :
             c \in {x \in DirChildren(RootPath, 0) :
                       x.name # NameDot /\ x.name # NameDotDot}}

\* lists of distinct entries, as one directory yields them
EntryLists ==
    {s \in UNION {[1..n -> EntryPool] : n \in 0..MaxListLen} :
        \A i, j \in 1..Len(s) : i # j => s[i] # s[j]}

\* every value of the settings the filter and the sort look at
ListFlags ==
    [show_all : BOOLEAN, long_format : {FALSE}, dirs_only : BOOLEAN,
     files_only : BOOLEAN, human_readable : {FALSE},
     sort_mode : {SORT_NAME, SORT_SIZE, SORT_TIME}]

\* a pass that removes from a list in place and steps over the entry that
\* moved into the freed slot
RECURSIVE FilterList_SkipAfterRemove(_, _)
FilterList_SkipAfterRemove(s, f) ==
    IF s = <<>> THEN <<>>
    ELSE IF IncludeEntry(Head(s), f)
         THEN <<Head(s)>> \o FilterList_SkipAfterRemove(Tail(s), f)
    ELSE IF Len(s) = 1 THEN <<>>
    ELSE <<s[2]>> \o FilterList_SkipAfterRemove(Tail(Tail(s)), f)

\* the loop of read_dir: each entry is kept or dropped by include_entry alone
FilterList(s, f) == SelectSeq(s, LAMBDA e : IncludeEntry(e, f))

ListInit ==
    /\ pc = "list_in"
    /\ current_path = RootPath
    /\ entries \in EntryLists
    /\ history = <<>>
    /\ cursor_pos = 0
    /\ scroll_offset = 0
    /\ needs_refresh = FALSE
    /\ terminal_resized = FALSE
    /\ flags \in ListFlags
    /\ global_state = FALSE
    /\ handler = "dfl"
    /\ terminal_setup = FALSE
    /\ alt_screen = FALSE
    /\ raw_restored = 0
    /\ alt_left = 0
    /\ cwd = DirD
    /\ fsver = 0
    /\ last_cmd = "none"
    /\ before_load = NoLoad
    /\ hist_log = <<>>

\* the filter applied to the list, a first and a second time
ListFilter ==
    /\ pc \in {"list_in", "list_filtered"}
    /\ entries' = FilterList(entries, flags)
    /\ pc' = IF pc = "list_in" THEN "list_filtered" ELSE "list_refiltered"
    /\ before_load' = IF pc = "list_in"
                      THEN [cursor |-> -1, used |-> Len(entries), stat_ok |-> TRUE]
                      ELSE before_load
    /\ UNCHANGED <<current_path, history, cursor_pos, scroll_offset, flags,
                   needs_refresh, terminal_resized, termVars, envVars, last_cmd,
                   hist_log>>

\* qsort applied to the list with the comparator of the sort mode
ListSort ==
    /\ pc = "list_in"
    /\ \E sorted \in QsortResults({entries[i] : i \in 1..Len(entries)},
                                  flags.sort_mode) :
          entries' = sorted
    /\ pc' = "list_sorted"
    /\ UNCHANGED <<current_path, history, cursor_pos, scroll_offset, flags,
                   needs_refresh, terminal_resized, termVars, envVars, last_cmd,
                   before_load, hist_log>>

ListNext == ListFilter \/ ListSort

ListSpec == ListInit /\ [][ListNext]_vars

(***************************************************************************)
(* The list view on its own: display_interface drawing a snapshot at any   *)
(* terminal height, between cursor movements and reloads, with the frame   *)
(* it drew logged.                                                         *)
(***************************************************************************)
\* the tallest terminal a test of the view is run in
MaxViewHeight == 9

\* the snapshots the view is tested on: the listing of /d/sub by name, cut
\* to every length
ViewLists ==
    LET full == Ranked(ReadDir(DirSub, [show_all |-> FALSE, long_format |-> FALSE,
                                        dirs_only |-> FALSE, files_only |-> FALSE,
                                        human_readable |-> FALSE,
                                        sort_mode |-> SORT_NAME], 0, TRUE),
                      SORT_NAME)
    IN  {SubSeq(full, 1, n) : n \in 0..Len(full)}

\* display_interface: the slice [start, end) of the list, the rows of entries
\* and the rows of filler it prints
Frame(off, avail, used) ==
    LET start == off
        end == IF start + avail > used THEN used ELSE start + avail
        lines_used == end - start
    IN  [avail |-> avail, start |-> start, end |-> end,
         entry_rows |-> IF end > start THEN end - start ELSE 0,
         filler_rows |-> IF avail > lines_used THEN avail - lines_used ELSE 0]

ViewInit ==
    /\ pc = "view_render"
    /\ current_path = DirSub
    /\ entries \in ViewLists
    /\ history = <<>>
    /\ cursor_pos = 0
    /\ scroll_offset = 0
    /\ needs_refresh = FALSE
    /\ terminal_resized = FALSE
    /\ flags = [show_all |-> FALSE, long_format |-> FALSE, dirs_only |-> FALSE,
                files_only |-> FALSE, human_readable |-> FALSE,
                sort_mode |-> SORT_NAME]
    /\ global_state = FALSE
    /\ handler = "dfl"
    /\ terminal_setup = FALSE
    /\ alt_screen = FALSE
    /\ raw_restored = 0
    /\ alt_left = 0
    /\ cwd = DirD
    /\ fsver = 0
    /\ last_cmd = "none"
    /\ before_load = NoLoad
    /\ hist_log = <<>>

\* display_interface at a terminal of any height up to MaxViewHeight
ViewRender ==
    /\ pc = "view_render"
    /\ \E h \in 0..MaxViewHeight :
          LET avail == AvailableLines(h)
              off == AdjustScroll(cursor_pos, scroll_offset, avail)
          IN  /\ scroll_offset' = off
              /\ hist_log' = <<Frame(off, avail, Len(entries))>>
    /\ pc' = "view_await"
    /\ UNCHANGED <<current_path, entries, history, cursor_pos, flags,
                   needs_refresh, terminal_resized, termVars, envVars, last_cmd,
                   before_load>>

\* a key between two frames: j or k moves the cursor, any other key that
\* does not reload leaves it
ViewMove ==
    /\ pc = "view_await"
    /\ \E k \in {Ch.j, Ch.k, Ch.x} :
          cursor_pos' = MoveCursor(k, cursor_pos, Len(entries))
    /\ pc' = "view_render"
    /\ UNCHANGED <<current_path, entries, history, scroll_offset, flags,
                   needs_refresh, terminal_resized, termVars, envVars, last_cmd,
                   before_load, hist_log>>

\* load_directory between two frames: another snapshot, cursor and scroll
\* offset back at 0
ViewReload ==
    /\ pc = "view_await"
    /\ entries' \in ViewLists
    /\ cursor_pos' = 0
    /\ scroll_offset' = 0
    /\ pc' = "view_render"
    /\ UNCHANGED <<current_path, history, flags, needs_refresh, terminal_resized,
                   termVars, envVars, last_cmd, before_load, hist_log>>

ViewNext == ViewRender \/ ViewMove \/ ViewReload

ViewSpec == ViewInit /\ [][ViewNext]_vars

(***************************************************************************)
(* Properties.                                                             *)
(***************************************************************************)

\* C1: the settings of a session that main() started never have dirs_only and
\* files_only set together, whatever keys are pressed.
C1_FiltersExclusive == ~(flags.dirs_only /\ flags.files_only)

\* C1 witness: 'd' was pressed while files_only was set, and cleared it.
C1_Witness ==
    /\ pc = "top"
    /\ last_cmd = "dirs_swap"
    /\ flags.dirs_only
    /\ ~flags.files_only

\* the cursor indexes an entry of the list, and is 0 on an empty list
CursorInRange ==
    IF Len(entries) = 0 THEN cursor_pos = 0
    ELSE 0 <= cursor_pos /\ cursor_pos <= Len(entries) - 1

\* a step that dispatches Down (j, or ESC and what follows it) / Up
DownStep == pc \in {"await", "esc"} /\ pc' = "top" /\ last_cmd' \in {"down", "down_stay"}
UpStep == pc \in {"await", "esc"} /\ pc' = "top" /\ last_cmd' \in {"up", "up_stay"}

\* C2: once a command has been dispatched, and after the reload that follows
\* it, the cursor is within [0, length-1], and 0 on an empty snapshot; Down at
\* the last index, Up at index 0 and Up/Down on an empty list leave it as it is.
C2_CursorInRange ==
    /\ [](pc \in {"top", "check_refresh", "clear_refresh", "render", "await"}
            => CursorInRange)
    /\ [][/\ DownStep /\ (Len(entries) = 0 \/ cursor_pos = Len(entries) - 1)
             => cursor_pos' = cursor_pos
          /\ UpStep /\ (Len(entries) = 0 \/ cursor_pos = 0)
             => cursor_pos' = cursor_pos]_vars

\* C2 witness: Down was dispatched at the last index of a list of several
\* entries and the cursor stayed there.
C2_Witness ==
    /\ pc = "top"
    /\ last_cmd = "down_stay"
    /\ Len(entries) > 1
    /\ cursor_pos = Len(entries) - 1

NoAdjacentDup(h) == \A i \in 1..(Len(h) - 1) : h[i] # h[i + 1]

\* C5: the history stack never holds two adjacent equal paths; push(p); push(p)
\* on an empty stack leaves exactly <<p>>, the first pop then returns p and
\* the next pop reports empty.
C5_HistoryNoAdjacentDup ==
    /\ NoAdjacentDup(history)
    /\ \A p \in HistPaths :
          (Len(hist_log) >= 2 /\ SubSeq(hist_log, 1, 2) = <<PushOp(p), PushOp(p)>>) =>
             /\ Len(hist_log) = 2 => history = <<p>>
             /\ (Len(hist_log) >= 3 /\ hist_log[3].op = "pop") =>
                   /\ ~hist_log[3].null
                   /\ hist_log[3].path = p
                   /\ Len(hist_log) = 3 => history = <<>>
             /\ (Len(hist_log) >= 4 /\ hist_log[3].op = "pop"
                    /\ hist_log[4].op = "pop") => hist_log[4].null

\* C5 witness: push(p), push(p), pop, pop were done on an empty stack.
C5_Witness ==
    /\ Len(hist_log) = 4
    /\ hist_log[1] = PushOp(DirD)
    /\ hist_log[2] = PushOp(DirD)
    /\ hist_log[3].op = "pop"
    /\ hist_log[4].op = "pop"
    /\ history = <<>>


\* a step that dispatches Back with an empty history and a resolved realpath("..")
BackParentStep ==
    pc = "await" /\ pc' = "top" /\ last_cmd' \in {"back_parent", "back_stay"}

\* C3: Back with an empty history, away from the root, makes the parent of the
\* current path the current path and asks for a refresh, whatever the working
\* directory of the process is.
C3_BackGoesToParent ==
    [][(BackParentStep /\ Resolve(current_path) # RootPath)
          => /\ current_path' = ParentDir(Resolve(current_path))
             /\ needs_refresh']_vars

\* a step that dispatches Back with an empty history
BackEmptyStep ==
    /\ pc = "await"
    /\ pc' = "top"
    /\ last_cmd' \in {"back_parent", "back_stay", "back_unresolved"}

\* C4: Back with an empty history at the file system root changes neither the
\* current path, the snapshot, the cursor, the history nor the refresh flag.
C4_BackAtRootNoop ==
    [][(BackEmptyStep /\ Resolve(current_path) = RootPath)
          => UNCHANGED <<current_path, entries, cursor_pos, history,
                         needs_refresh>>]_vars

\* C6 as claimed: a reload that leaves fewer entries than the old cursor
\* needs puts the cursor on the last entry, new_length - 1.
C6_CursorClampedOnShrink ==
    (pc = "clear_refresh" /\ Len(entries) > 0
        /\ before_load.cursor > Len(entries) - 1)
       => cursor_pos = Len(entries) - 1

\* C6: a reload that leaves fewer entries than the old cursor needs puts the
\* cursor on index 0, which is inside the new list.
C6_CursorResetOnShrink ==
    (pc = "clear_refresh" /\ before_load.cursor > Len(entries) - 1)
       => cursor_pos = 0 /\ CursorInRange

\* C6 witness: the cursor stood on the last of NumFiles entries and the reload
\* found KeepFiles entries.
C6_Witness ==
    /\ pc = "clear_refresh"
    /\ before_load.used = NumFiles
    /\ before_load.cursor = NumFiles - 1
    /\ Len(entries) = KeepFiles
    /\ cursor_pos = 0

\* C7: however the session ends (quit, failed start-path resolution, exit
\* inside the loop), raw mode and the alternate screen are released, exactly
\* once when they were acquired and not at all when they were not.
C7_TerminalRestoredOnEveryExit ==
    pc \in {"done", "aborted", "exited"} =>
       /\ ~terminal_setup
       /\ ~alt_screen
       /\ raw_restored = (IF pc = "aborted" THEN 0 ELSE 1)
       /\ alt_left = (IF pc = "aborted" THEN 0 ELSE 1)

InLoop ==
    pc \in {"top", "check_refresh", "clear_refresh", "render", "await", "esc",
            "ack_info", "ack_help"}

\* C8: once in the event loop, only the dispatch of the quit command leaves
\* it, and the cleanup runs after the quit.
C8_OnlyQuitEndsLoop ==
    /\ [][(InLoop /\ ~InLoop') =>
             (pc = "await" /\ pc' = "cleanup" /\ last_cmd' = "quit")]_vars
    /\ [][(pc = "cleanup" /\ pc' # pc) => (pc' = "uninstall" /\ ~alt_screen')]_vars
    /\ [][(pc = "uninstall" /\ pc' # pc) => (pc' = "release" /\ ~terminal_setup')]_vars

\* C9: a reload whose directory cannot be opened leaves the previous snapshot
\* in place and the session on a current path that can be opened.
C9_FailedOpenKeepsPrevious ==
    [][(pc = "check_refresh" /\ needs_refresh /\ pc' = "clear_refresh"
           /\ ~CanOpen(Resolve(current_path)))
          => (entries' = entries /\ CanOpen(Resolve(current_path')))]_vars

\* the inclusion rule as the specification states it
SpecIncluded(c, valid, f) ==
    /\ f.show_all \/ Head(c.name) # Dot
    /\ ~f.dirs_only \/ (valid /\ c.kind = "dir")
    /\ ~f.files_only \/ (valid /\ c.kind = "reg")

\* a step in which load_directory ran to its end
LoadDone ==
    \/ pc = "init_load" /\ pc' = "top"
    \/ pc = "check_refresh" /\ needs_refresh /\ pc' = "clear_refresh"

\* C10: a load of a directory that opens yields exactly the children, "." and
\* ".." apart, that pass the three rules: hidden rule, dirs-only rule and
\* files-only rule, the last two failing for a child whose lstat failed.
C10_LoaderInclusion ==
    [][(LoadDone /\ CanOpen(Resolve(current_path))) =>
          LET dir == Resolve(current_path)
              names == {entries'[i].name : i \in 1..Len(entries')}
              real == {c \in DirChildren(dir, fsver) :
                          c.name # NameDot /\ c.name # NameDotDot}
          IN  /\ names \subseteq {c.name : c \in real}
              /\ Cardinality(names) = Len(entries')
              /\ \A c \in real :
                    LET valid == Racy(dir, c.name) => before_load'.stat_ok IN
                    /\ (c.name \in names) <=> SpecIncluded(c, valid, flags)
                    /\ \A i \in 1..Len(entries') :
                          entries'[i].name = c.name => entries'[i].st_valid = valid
                    /\ ~valid => ((c.name \in names) <=>
                                     (/\ ~flags.dirs_only
                                      /\ ~flags.files_only
                                      /\ (flags.show_all \/ Head(c.name) # Dot)))]_vars

\* C10 witness: a load kept a child whose lstat had failed.
C10_Witness ==
    /\ pc = "clear_refresh"
    /\ ~before_load.stat_ok
    /\ \E i \in 1..Len(entries) : entries[i].name = NameE /\ ~entries[i].st_valid


NameBefore(s, t) ==
    \E k \in 1..Len(t) :
        /\ \A i \in 1..(k - 1) : i <= Len(s) /\ s[i] = t[i]
        /\ \/ k = Len(s) + 1
           \/ k <= Len(s) /\ s[k] < t[k]

\* the order each sort mode is specified to give
SpecBefore(mode, x, y) ==
    IF mode = SORT_NAME THEN NameBefore(x.name, y.name)
    ELSE IF mode = SORT_SIZE
         THEN x.size > y.size \/ (x.size = y.size /\ NameBefore(x.name, y.name))
    ELSE x.mtime > y.mtime \/ (x.mtime = y.mtime /\ NameBefore(x.name, y.name))

\* C12: for two different entries with valid metadata, each comparator puts
\* exactly one before the other: by ascending name in Name mode, the larger
\* first in Size mode, the newer first in Time mode, and by ascending name
\* when sizes or times are equal; a sorted list of such entries is in that
\* order (sizes 500, 10, 10 of b, a, c give b, a, c).
C12_ValidEntriesOrdered ==
    LET S == {entries[i] : i \in 1..Len(entries)} IN
    /\ \A mode \in {SORT_NAME, SORT_SIZE, SORT_TIME} :
          \A x, y \in S :
             (x.st_valid /\ y.st_valid /\ x # y) =>
                /\ (Cmp(mode, x, y) < 0) <=> SpecBefore(mode, x, y)
                /\ (Cmp(mode, x, y) < 0) <=> ~(Cmp(mode, y, x) < 0)
                /\ (Cmp(mode, x, y) > 0) <=> (Cmp(mode, y, x) < 0)
    /\ (pc = "list_sorted" /\ \A x \in S : x.st_valid) =>
          \A i, j \in 1..Len(entries) :
             i < j => SpecBefore(flags.sort_mode, entries[i], entries[j])

\* C12 witness: Size mode has sorted b (500), a (10) and c (10) into b, a, c.
C12_Witness ==
    /\ pc = "list_sorted"
    /\ flags.sort_mode = SORT_SIZE
    /\ Len(entries) = 3
    /\ entries[1].name = FileName(2) /\ entries[1].size = 500
    /\ entries[2].name = FileName(1) /\ entries[2].size = 10
    /\ entries[3].name = FileName(3) /\ entries[3].size = 10


\* C13: each comparator is a total order on every set of entries, sets that
\* mix entries with and without metadata included: it is antisymmetric and
\* transitive, and a sorted list is in the one order the set determines.
C13_ComparatorsTotalOrder ==
    LET S == {entries[i] : i \in 1..Len(entries)} IN
    /\ \A mode \in {SORT_NAME, SORT_SIZE, SORT_TIME} :
          /\ \A a, b \in S : Cmp(mode, a, b) = -Cmp(mode, b, a)
          /\ \A a, b, c \in S :
                (Cmp(mode, a, b) < 0 /\ Cmp(mode, b, c) < 0) => Cmp(mode, a, c) < 0
    /\ pc = "list_sorted" => IsSorted(entries, flags.sort_mode)


\* the names of a list, in list order
NamesOf(s) == [i \in 1..Len(s) |-> s[i].name]

\* C14: after every reload of a directory that opens, the snapshot holds
\* exactly the children the filter admits, and the list as a whole is in the
\* order of the sort mode; /d in Name mode reads a.txt, sub with show-hidden
\* off and .hidden, a.txt, sub with show-hidden on.
C14_FilteredThenSorted ==
    [][(LoadDone /\ CanOpen(Resolve(current_path))) =>
          LET dir == Resolve(current_path)
              real == {c \in DirChildren(dir, fsver) :
                          c.name # NameDot /\ c.name # NameDotDot}
              admitted == {c \in real :
                              SpecIncluded(c, Racy(dir, c.name) => before_load'.stat_ok,
                                           flags)}
          IN  /\ {entries'[i].name : i \in 1..Len(entries')} = {c.name : c \in admitted}
              /\ Len(entries') = Cardinality(admitted)
              /\ \A i, j \in 1..Len(entries') :
                    i < j => Cmp(flags.sort_mode, entries'[i], entries'[j]) < 0
              /\ (dir = DirD /\ flags.sort_mode = SORT_NAME
                    /\ ~flags.dirs_only /\ ~flags.files_only) =>
                    NamesOf(entries') = IF flags.show_all
                                        THEN <<NameHidden, NameATxt, NameSub>>
                                        ELSE <<NameATxt, NameSub>>]_vars


\* a step that dispatches an input whose key code is none of q, j, k, Enter,
\* b, a, l, s, H, d, f, r and ?: the default case, or the case of the ESC byte
UndocumentedKeyStep == pc = "await" /\ last_cmd' \in {"other", "other_arrow", "esc"}

\* C15: an input that is not a documented command is ignored: the loop goes
\* straight back to its top without reading further input, and current path,
\* snapshot, settings, history, cursor, scroll offset and refresh flag are
\* unchanged.
C15_UnknownKeyIgnored ==
    [][UndocumentedKeyStep =>
          /\ pc' = "top"
          /\ UNCHANGED <<current_path, entries, flags, history, cursor_pos,
                         scroll_offset, needs_refresh>>]_vars


\* a step of the signal handler: the session stays where it is and the file
\* system is as it was
ResizeStep == Alive /\ HandlerLive /\ pc' = pc /\ fsver' = fsver

C17_AbortBeforeUI ==
    /\ [](pc = "aborted" =>
             /\ ~terminal_setup
             /\ ~alt_screen
             /\ handler = "dfl"
             /\ ~global_state
             /\ entries = <<>>
             /\ before_load = NoLoad
             /\ raw_restored = 0
             /\ alt_left = 0)
    /\ [][pc' = "aborted" => pc \in {"start", "aborted"}]_vars
    /\ [][pc = "aborted" => pc' = "aborted"]_vars

\* C17 witness: the start path did not resolve and the session has aborted
\* with the terminal untouched.
C17_Witness ==
    /\ pc = "aborted"
    /\ ~terminal_setup
    /\ ~alt_screen
    /\ handler = "dfl"


\* the commands after which the loop top is reached with a refresh requested:
\* Enter on a directory, Enter on another entry and ? once acknowledged, Back
\* when it changes the path, a, d, f, s and r
RefreshCmds ==
    {"enter_dir", "enter_info", "help", "back_pop", "back_parent", "hidden",
     "dirs", "dirs_swap", "files", "files_swap", "sort", "refresh"}

\* C18: an iteration that finds the refresh flag set reloads the snapshot for
\* the current path with the current settings, puts cursor and scroll offset
\* to 0 and clears the flag, and the frame is rendered only after that (or
\* after the flag was found clear).  Enter, Back when it changes the path, a,
\* d, f, s, r and ? reach the loop top with the flag set, the flag stays set
\* up to the test, and cursor and scroll offset stay 0 from the reload to the
\* input wait; Enter on an empty list leaves the cursor at 0.
C18_RefreshBeforeRender ==
    /\ []((pc = "top" /\ last_cmd \in RefreshCmds) => needs_refresh)
    /\ []((pc = "top" /\ last_cmd = "enter_empty") => cursor_pos = 0)
    /\ [][(pc = "top" /\ needs_refresh) => needs_refresh']_vars
    /\ [][(pc = "check_refresh" /\ needs_refresh /\ pc' # pc) =>
             /\ pc' \in {"clear_refresh", "exited"}
             /\ pc' = "clear_refresh" =>
                   /\ UNCHANGED <<current_path, flags>>
                   /\ {entries'[i] : i \in 1..Len(entries')} =
                         ReadDir(current_path, flags, fsver, before_load'.stat_ok)
                   /\ Len(entries') =
                         Cardinality(ReadDir(current_path, flags, fsver,
                                             before_load'.stat_ok))
                   /\ cursor_pos' = 0
                   /\ scroll_offset' = 0]_vars
    /\ [][(pc = "clear_refresh" /\ pc' # pc) =>
             /\ pc' = "render"
             /\ ~needs_refresh'
             /\ cursor_pos' = 0
             /\ scroll_offset' = 0
             /\ UNCHANGED entries]_vars
    /\ [][(pc' = "render" /\ pc # "render") =>
             \/ pc = "clear_refresh"
             \/ pc = "check_refresh" /\ ~needs_refresh]_vars
    /\ [][(pc = "render" /\ pc' # pc) =>
             /\ pc' = "await"
             /\ UNCHANGED <<entries, cursor_pos>>
             /\ (cursor_pos = 0 /\ scroll_offset = 0) => scroll_offset' = 0]_vars

\* C18 witness: a reload has put a cursor that was further down back to 0 and
\* the flag is about to be cleared.
C18_Witness ==
    /\ pc = "clear_refresh"
    /\ needs_refresh
    /\ before_load.cursor > 0
    /\ cursor_pos = 0
    /\ scroll_offset = 0


\* a step that dispatches Enter on a directory / Back with a history that is
\* not empty
EnterDirStep == pc = "await" /\ last_cmd' = "enter_dir"
BackPopStep == pc = "await" /\ last_cmd' \in {"back_pop", "back_pop_same"}

\* C19: Enter on an entry with valid metadata that is a directory pushes the
\* current path P and makes the entry's path current; the top of the history
\* never equals the current path, so the push always happens; Back with a
\* history that is not empty pops exactly the top and makes it current; and
\* the steps of the loop between two commands keep path and history.  Enter
\* followed by Back therefore restores the path and the history.
C19_EnterThenBackRestores ==
    /\ [](history # <<>> => history[Len(history)] # current_path)
    /\ [][EnterDirStep =>
             /\ entries[cursor_pos + 1].st_valid
             /\ entries[cursor_pos + 1].kind = "dir"
             /\ history' = Append(history, current_path)
             /\ current_path' = entries[cursor_pos + 1].path]_vars
    /\ [][BackPopStep =>
             /\ history # <<>>
             /\ current_path' = history[Len(history)]
             /\ history' = SubSeq(history, 1, Len(history) - 1)]_vars
    /\ [][(pc \in {"top", "check_refresh", "clear_refresh", "render"}
             /\ pc' # "exited") => UNCHANGED <<current_path, history>>]_vars

\* C19 witness: from /, Enter on d, Enter on sub and Back have led back to the
\* path "//d" with the history holding "/" alone, as before the second Enter.
C19_Witness ==
    /\ pc = "top"
    /\ last_cmd = "back_pop"
    /\ current_path = JoinPath(RootPath, NameD)
    /\ history = <<RootPath>>


\* C20: Enter on an entry that is not a valid directory, and ?, change nothing
\* and block in one further read; whatever that read returns (q included) is
\* not dispatched: the loop goes back to its top with a refresh requested and
\* with current path, settings, history, snapshot and cursor unchanged.
C20_AckNotDispatched ==
    /\ [][(pc = "await" /\ last_cmd' \in {"enter_dir", "enter_info", "enter_empty"}
              /\ Len(entries) > 0
              /\ ~(entries[cursor_pos + 1].st_valid
                     /\ entries[cursor_pos + 1].kind = "dir"))
             => (last_cmd' = "enter_info" /\ pc' = "ack_info")]_vars
    /\ [][(pc = "await" /\ last_cmd' \in {"enter_info", "help"}) =>
             /\ pc' = (IF last_cmd' = "help" THEN "ack_help" ELSE "ack_info")
             /\ UNCHANGED <<current_path, flags, history, entries, cursor_pos,
                            needs_refresh>>]_vars
    /\ [][(pc \in {"ack_info", "ack_help"} /\ pc' # pc) =>
             /\ pc' = "top"
             /\ needs_refresh'
             /\ UNCHANGED <<current_path, flags, history, entries, cursor_pos>>]_vars

\* C20 witness: the info view of an entry that is not a directory has been
\* acknowledged and the loop is back at its top with a refresh requested.
C20_Witness ==
    /\ pc = "top"
    /\ last_cmd = "enter_info"
    /\ needs_refresh
    /\ Len(entries) > 0
    /\ entries[cursor_pos + 1].kind # "dir"


\* a step that dispatches Enter
EnterStep ==
    pc = "await" /\ last_cmd' \in {"enter_dir", "enter_info", "enter_empty"}

\* C21: Enter on an empty snapshot does nothing: the loop goes back to its
\* top without waiting for an acknowledgement key, and current path, history,
\* settings, cursor, refresh flag, snapshot and scroll offset are unchanged.
C21_EnterOnEmptyIsNoop ==
    [][(EnterStep /\ Len(entries) = 0) =>
          /\ pc' = "top"
          /\ last_cmd' = "enter_empty"
          /\ UNCHANGED <<current_path, history, flags, cursor_pos,
                         needs_refresh, entries, scroll_offset>>]_vars

\* C21 witness: Enter was dispatched on an empty snapshot.
C21_Witness ==
    /\ pc = "top"
    /\ last_cmd = "enter_empty"
    /\ Len(entries) = 0
    /\ ~needs_refresh


\* a step that dispatches l, typed or decoded from an escape sequence, or H
RenderToggleStep == pc = "await" /\ last_cmd' \in {"long", "long_arrow", "human"}

\* a step that dispatches a, d, f or s
ReloadToggleStep ==
    /\ pc = "await"
    /\ last_cmd' \in {"hidden", "dirs", "dirs_swap", "files", "files_swap", "sort"}

\* C22: l and H flip their own settings bit and nothing else: the refresh
\* flag, the snapshot, the cursor, the scroll offset, the current path, the
\* history and the other settings stay as they are; a, d, f and s always set
\* the refresh flag.
C22_ToggleEffects ==
    /\ [][RenderToggleStep =>
             /\ flags' = (IF last_cmd' = "human"
                          THEN [flags EXCEPT !.human_readable = ~flags.human_readable]
                          ELSE [flags EXCEPT !.long_format = ~flags.long_format])
             /\ UNCHANGED <<needs_refresh, entries, cursor_pos, scroll_offset,
                            current_path, history>>]_vars
    /\ [][ReloadToggleStep => needs_refresh']_vars

\* C22 witness: H was dispatched and no refresh is requested.
C22_Witness ==
    /\ pc = "top"
    /\ last_cmd = "human"
    /\ flags.human_readable
    /\ ~needs_refresh


\* the cycle of the sort modes as the specification gives it
SpecNextSort(m) ==
    IF m = SORT_NAME THEN SORT_SIZE
    ELSE IF m = SORT_SIZE THEN SORT_TIME
    ELSE SORT_NAME

\* C23: the sort mode is always one of Name, Size and Time; a cycle-sort
\* command takes Name to Size, Size to Time and Time to Name, so that three of
\* them in a row restore the mode.
C23_SortCycle ==
    /\ [](flags.sort_mode \in {SORT_NAME, SORT_SIZE, SORT_TIME})
    /\ [][(pc = "await" /\ last_cmd' = "sort") =>
             /\ flags'.sort_mode = SpecNextSort(flags.sort_mode)
             /\ SpecNextSort(SpecNextSort(flags'.sort_mode)) = flags.sort_mode]_vars

\* C23 witness: a cycle-sort command wrapped from Time back to Name.
C23_Witness ==
    /\ pc = "top"
    /\ last_cmd = "sort"
    /\ flags.sort_mode = SORT_NAME


\* C24: after a render at any terminal height the scroll offset satisfies
\* 0 <= scroll_offset <= cursor < scroll_offset + available_lines, the row of
\* the cursor is among the rows drawn whenever there is an entry to draw, and
\* the rows of entries and the rows of filler add up to available_lines.
C24_CursorInViewport ==
    pc = "view_await" =>
       LET f == hist_log[1] IN
       /\ 0 <= scroll_offset
       /\ scroll_offset <= cursor_pos
       /\ cursor_pos < scroll_offset + f.avail
       /\ Len(entries) > 0 => (f.start <= cursor_pos /\ cursor_pos < f.end)
       /\ f.entry_rows + f.filler_rows = f.avail

\* C24 witness: a frame of more than one line, scrolled down, with the cursor
\* on its last line and no filler.
C24_Witness ==
    /\ pc = "view_await"
    /\ hist_log[1].avail > 1
    /\ scroll_offset > 0
    /\ cursor_pos = scroll_offset + hist_log[1].avail - 1
    /\ hist_log[1].filler_rows = 0


\* the session between the installation of the resize handler and the quit
Running == pc = "init_load" \/ InLoop

\* C25: no resize notification is lost: wherever the running session stands
\* the handler is in place to record a resize, a recorded resize stays
\* pending until the top of the loop, the top of the loop clears it and asks
\* for a refresh, and a requested refresh is a reload before the next frame.
C25_NoResizeLost ==
    /\ [](Running => HandlerLive)
    /\ [][ResizeStep => (terminal_resized' /\ needs_refresh')]_vars
    /\ [][(InLoop /\ InLoop' /\ terminal_resized /\ ~terminal_resized') =>
             (pc = "top" /\ needs_refresh')]_vars
    /\ [][(pc = "top" /\ pc' # pc) =>
             (~terminal_resized' /\ (terminal_resized => needs_refresh'))]_vars
    /\ [][(pc = "check_refresh" /\ needs_refresh /\ pc' # pc) =>
             pc' \in {"clear_refresh", "exited"}]_vars
    /\ [][(pc # "render" /\ pc' = "render") =>
             \/ pc = "clear_refresh"
             \/ pc = "check_refresh" /\ ~needs_refresh]_vars


\* the path string c is what Enter on an entry of the directory listed under
\* the path string p makes current
EnteredFrom(c, p) == Len(c) > 0 /\ c = JoinPath(p, c[Len(c)])

\* C26: the history is a chain of ancestors: every element is the path from
\* which the next one was entered and the top is the path from which the
\* current path was entered, so the top differs from the current path; Enter on
\* a directory always lengthens the history by one, and Back with a history
\* that is not empty always changes the current path and shortens the history
\* by exactly one.
C26_HistoryIsAncestorChain ==
    /\ [](\A i \in 1..(Len(history) - 1) : EnteredFrom(history[i + 1], history[i]))
    /\ [](history # <<>> =>
             /\ EnteredFrom(current_path, history[Len(history)])
             /\ history[Len(history)] # current_path)
    /\ [][EnterDirStep =>
             /\ Len(history') = Len(history) + 1
             /\ history'[Len(history')] = current_path]_vars
    /\ [][BackPopStep =>
             /\ last_cmd' = "back_pop"
             /\ current_path' # current_path
             /\ Len(history') = Len(history) - 1]_vars

\* C26 witness: two directories deep, with both paths the session came
\* through on the history.
C26_Witness ==
    /\ pc = "await"
    /\ history = <<RootPath, JoinPath(RootPath, NameD)>>
    /\ current_path = JoinPath(JoinPath(RootPath, NameD), NameSub)


\* C27: whenever a frame is rendered and the loop blocks for a key, the
\* snapshot is the one of the current path under the current settings: every
\* entry lies in the current path and passes the current filter, and the list
\* is in the order of the current comparator.
C27_SnapshotMatchesSettings ==
    pc \in {"render", "await"} =>
       /\ \A i \in 1..Len(entries) :
             /\ entries[i].path = JoinPath(current_path, entries[i].name)
             /\ IncludeEntry(entries[i], flags)
       /\ IsSorted(entries, flags.sort_mode)


\* the escape sequence of an arrow key, by its final byte
Arrow(c) == <<Ch.esc, Ch.lbr, c>>

\* a step that dispatches what a Left-arrow or Right-arrow sequence read in
\* one piece was decoded to
SideArrowStep == pc = "await" /\ last_cmd' \in {"long_arrow", "other_arrow"}

\* C28: an arrow-key sequence is decoded to one command: Up-arrow to the
\* command that moves the cursor up by one and Down-arrow to the one that
\* moves it down by one, read in one piece or after an ESC byte that arrived
\* alone, and the dispatch of Left-arrow or Right-arrow leaves the whole
\* session state, the settings included, unchanged.
C28_ArrowKeysDecoded ==
    /\ [](/\ ReadSingleChar(Arrow(Ch.A)) = Ch.k
          /\ ReadSingleChar(Arrow(Ch.B)) = Ch.j
          /\ EscDecode(<<Ch.lbr, Ch.A>>) = Ch.k
          /\ EscDecode(<<Ch.lbr, Ch.B>>) = Ch.j)
    /\ [][UpStep =>
             /\ cursor_pos' = (IF cursor_pos > 0 THEN cursor_pos - 1 ELSE cursor_pos)
             /\ UNCHANGED <<current_path, entries, history, flags, needs_refresh>>]_vars
    /\ [][DownStep =>
             /\ cursor_pos' = (IF cursor_pos < Len(entries) - 1
                               THEN cursor_pos + 1 ELSE cursor_pos)
             /\ UNCHANGED <<current_path, entries, history, flags, needs_refresh>>]_vars
    /\ [][SideArrowStep =>
             /\ pc' = "top"
             /\ UNCHANGED <<current_path, entries, history, flags, cursor_pos,
                            scroll_offset, needs_refresh>>]_vars


\* where the session stands while its state is initialised, registered in
\* global_state and not yet released
StateLive == pc \in {"setup", "init_load", "cleanup", "uninstall", "release"} \/ InLoop

\* C29 as claimed: the handler runs and sets flags only between the
\* registration of the session state and the point where the cleanup begins.
C29_HandlerOnlyBeforeCleanup ==
    [][ResizeStep =>
          /\ global_state
          /\ pc \in {"setup", "init_load", "cleanup"} \/ InLoop]_vars

\* C29: the handler only ever writes to a live session: it is installed only
\* while the session state is registered and not yet released, every run of
\* it finds the state registered, a notification that arrives while it is not
\* installed changes nothing of the session, and it is uninstalled before the
\* state is released and the registration is cleared.
C29_HandlerOnlyOnLiveSession ==
    /\ []((HandlerLive /\ pc # "exited") =>
             (global_state /\ StateLive /\ pc # "release"))
    /\ [][ResizeStep => (global_state /\ StateLive)]_vars
    /\ [][(pc' = pc /\ ~HandlerLive) =>
             UNCHANGED <<sessionVars, needs_refresh, terminal_resized>>]_vars
    /\ [][(global_state /\ ~global_state') =>
             (pc = "release" /\ handler = "dfl" /\ handler' = "dfl")]_vars

\* C29 witness: the cleanup has begun, the handler has run and is still
\* installed, and the session state is still registered.
C29_Witness ==
    /\ pc = "uninstall"
    /\ HandlerLive
    /\ global_state
    /\ terminal_resized

=============================================================================
